---------------------------- MODULE Spec2Model ----------------------------
(***************************************************************************)
(* Approximate manifold sampling: the Newton projection solver, the        *)
(* constrained RATTLE integrator and the C-RWM sampler of                  *)
(* src/ConstrainedRWM.py, and the THUG sampler of src/TangentialHug.py.    *)
(*                                                                         *)
(* Numbers.  Floating point is modelled in fixed point: every coordinate   *)
(* is an integer multiple of one unit of resolution, sums and products are *)
(* exact and a quotient is rounded to the nearest unit (RDiv), as IEEE     *)
(* division rounds to the nearest representable number.  Quantities the    *)
(* code halves (kinetic energies, log-densities) are carried doubled.      *)
(*                                                                         *)
(* Manifold.  The samplers take the manifold as an argument.  The model    *)
(* runs them on a family of manifolds of codimension m = 1 in ambient      *)
(* dimension n = 2 shaped like BIPManifold (a polynomial in the parameter  *)
(* plus sigma times the noise coordinate) whose evaluations raise          *)
(* ValueError outside a finite range, as GKManifold's do on overflow.      *)
(* With m = 1 a Jacobian is one row, written as a vector of length 2, and  *)
(* the coefficient vector a of the solver has one entry, written as an     *)
(* integer.  As the manifold contract says, an evaluation either raises    *)
(* ValueError or returns finite numbers, and sigma # 0 keeps J@J.T         *)
(* invertible, so numpy's solve inside linear_project never raises.        *)
(***************************************************************************)
EXTENDS Integers, Sequences, FiniteSets, TLC

VARIABLES
    pc,      \* which routine is running and where it stands
    args,    \* the arguments of the call under way
    crwm,    \* locals of zappa_sampling_storecomps_rattle_manifold
    thug,    \* locals of THUG
    ret,     \* the value a routine returned
    hist,    \* history: one record per finished sampler iteration
    process  \* state of the Python process that sampler runs share

vars == <<pc, args, crwm, thug, ret, hist, process>>

-----------------------------------------------------------------------------
(* Bounds of the model *)

MaxN == 2          \* samples asked of a sampler:            n in 0..MaxN
MaxB == 2          \* steps per trajectory:                  B in 1..MaxB
MaxIter == 2       \* Newton iteration cap:            maxiter in 0..MaxIter
MaxTol == 2        \* tolerances:                 tol, rev_tol in 1..MaxTol
MaxChains == 2     \* sampler runs (chains) sharing one process
MaxDraw == 1       \* a velocity coordinate is within twice a draw of -MaxDraw..MaxDraw
Range == 6         \* manifolds raise ValueError beyond Range - 1 (q) or Range - 2 (J)

-----------------------------------------------------------------------------
(* Fixed-point arithmetic on vectors of length 2 *)

Abs(k) == IF k < 0 THEN -k ELSE k

\* k / d rounded to the nearest unit, halves away from zero (d # 0)
RDiv(k, d) ==
    LET kk == IF d < 0 THEN -k ELSE k
        dd == Abs(d)
    IN  IF kk >= 0 THEN (2 * kk + dd) \div (2 * dd)
                   ELSE -((2 * (-kk) + dd) \div (2 * dd))

Add(u, w) == <<u[1] + w[1], u[2] + w[2]>>
Sub(u, w) == <<u[1] - w[1], u[2] - w[2]>>
Neg(u) == <<-u[1], -u[2]>>
Scale(c, u) == <<c * u[1], c * u[2]>>
Dot(u, w) == u[1] * w[1] + u[2] * w[2]
zeros2 == <<0, 0>>

\* norm(u, ord=2) >= t and norm(u, ord=2) < t, for t >= 0, compared squared
Norm2GE(u, t) == Dot(u, u) >= t * t
Norm2LT(u, t) == ~Norm2GE(u, t)

-----------------------------------------------------------------------------
(* The manifold capability.  An evaluation returns [ok, val]; ok = FALSE    *)
(* stands for the call raising ValueError.                                  *)

Raised == [ok |-> FALSE, val |-> 0]
Value(w) == [ok |-> TRUE, val |-> w]

Overflows(xi, lim) == Abs(xi[1]) > lim \/ Abs(xi[2]) > lim

\* manifold.q(xi): xi[0]**2 + sigma*xi[1] - ystar
manifold_q(manifold, xi) ==
    IF Overflows(xi, manifold.qlim) THEN Raised
    ELSE Value(xi[1] * xi[1] + manifold.sigma * xi[2] - manifold.ystar)

\* manifold.J(xi): the row (2*xi[0], sigma)
manifold_J(manifold, xi) ==
    IF Overflows(xi, manifold.jlim) THEN Raised
    ELSE Value(<<2 * xi[1], manifold.sigma>>)

\* manifold.Q(xi): the transpose of J, the same two numbers as a column
manifold_Q(manifold, xi) == manifold_J(manifold, xi)

Manifolds ==
    { [sigma |-> s, ystar |-> 0, qlim |-> Range - 1, jlim |-> Range - 2] : s \in {1, 2} }


-----------------------------------------------------------------------------
(* project_zappa_manifold: the Newton projection solver.                    *)
(* A result is [a, flag, i] as returned, with a trace of the call beside it: *)
(*   why     the return statement taken                                      *)
(*   nupd    how many times a was updated (a += da)                          *)
(*   nQ      how many times manifold.Q was evaluated                         *)
(*   qa      the a at which the constraint was last evaluated                *)
(*   qval    the value of that last evaluation (valid when qok)              *)
(*   met     whether the loop condition was ever found false                 *)

\* la.norm(projected_value, ord=norm_ord) >= tol, projected_value of length 1
NotWithinTolStrict(projected_value, tol) == Abs(projected_value) > tol
NotWithinTol(projected_value, tol) == Abs(projected_value) >= tol

\* cond(GramMatrix) < 1/finfo(z.dtype).eps for the 1x1 matrix: cond is 1, or
\* inf when the entry is 0
WellConditioned(GramMatrix) == GramMatrix # 0

\* la.solve(GramMatrix, projected_value)
la_solve(GramMatrix, projected_value) == RDiv(projected_value, GramMatrix)

ProjReturn(a, flag, i, why, nupd, nQ, qa, qval, qok, met) ==
    [a |-> a, flag |-> flag, i |-> i, why |-> why, nupd |-> nupd, nQ |-> nQ,
     qa |-> qa, qval |-> qval, qok |-> qok, met |-> met]

\* the comparison that ends the iteration: i > maxiter
OverCapLate(i, maxiter) == i > maxiter + 1
OverCap(i, maxiter) == i > maxiter

RECURSIVE NewtonLoop(_, _, _, _, _, _, _, _, _)
\* the while loop, entered with the current a, i and projected_value
NewtonLoop(manifold, z, Q, tol, maxiter, a, i, projected_value, nQ) ==
    IF ~NotWithinTol(projected_value, tol)
    THEN ProjReturn(a, 1, i, "converged", i, nQ, a, projected_value, TRUE, TRUE)
    ELSE LET Jproj == manifold_Q(manifold, Sub(z, Scale(a, Q)))
         IN  IF ~Jproj.ok
             THEN ProjReturn(0, 0, i, "Q_raised", i, nQ + 1, a, projected_value, TRUE, FALSE)
             ELSE LET GramMatrix == Dot(Jproj.val, Q)
                  IN  IF WellConditioned(GramMatrix)
                      THEN LET da == la_solve(GramMatrix, projected_value)
                               a2 == a + da
                               i2 == i + 1
                               pv == manifold_q(manifold, Sub(z, Scale(a2, Q)))
                           IN  IF OverCap(i2, maxiter)
                               THEN ProjReturn(0, 0, i2, "maxiter", i2, nQ + 1,
                                               a, projected_value, TRUE, FALSE)
                               ELSE IF ~pv.ok
                               THEN ProjReturn(0, 0, i2, "q_raised", i2, nQ + 1,
                                               a2, 0, FALSE, FALSE)
                               ELSE NewtonLoop(manifold, z, Q, tol, maxiter,
                                               a2, i2, pv.val, nQ + 1)
                      ELSE ProjReturn(0, 0, i, "singular", i, nQ + 1,
                                      a, projected_value, TRUE, FALSE)

\* the except clause of the first constraint evaluation: return a, 0, i
FirstRaisedFlagKept(a, flag, i) ==
    ProjReturn(a, flag, i, "q_raised_first", 0, 0, a, 0, FALSE, FALSE)
FirstRaised(a, flag, i) ==
    ProjReturn(a, 0, i, "q_raised_first", 0, 0, a, 0, FALSE, FALSE)

project_zappa_manifold(manifold, z, Q, tol, maxiter) ==
    LET a == 0
        flag == 1
        i == 0
        projected_value == manifold_q(manifold, Sub(z, Scale(a, Q)))
    IN  IF ~projected_value.ok
        THEN FirstRaised(a, flag, i)
        ELSE NewtonLoop(manifold, z, Q, tol, maxiter, a, i, projected_value.val, 0)

\* log, rounded down to a whole number of units (k >= 1)
RECURSIVE ILog(_)
ILog(k) == IF k < 2 THEN 0 ELSE 1 + ILog(k \div 2)

\* manifold.logeta(xi), doubled: -xi[0]**2 - xi[1]**2 - log(J@J.T + sigma**2);
\* a ValueError of J is caught inside and -inf returned (neginf)
manifold_logeta(manifold, xi) ==
    LET Jxi == manifold_J(manifold, xi)
    IN  IF ~Jxi.ok THEN [neginf |-> TRUE, val |-> 0]
        ELSE [neginf |-> FALSE,
              val |-> -(xi[1] * xi[1]) - xi[2] * xi[2]
                      - ILog(Dot(Jxi.val, Jxi.val) + manifold.sigma * manifold.sigma)]

-----------------------------------------------------------------------------
(* The constrained integrator: closures of the C-RWM sampler *)

compute_J(manifold, x) == manifold_J(manifold, x)

\* J.T @ solve(J@J.T, J@v)
linear_project(v, J) == Scale(RDiv(Dot(J, v), Dot(J, J)), J)

\* compute_J(y) raised ValueError: the except clause returns the step's inputs
\* with flag 0.  exc names an exception that leaves the routine uncaught.
StepRaisedUncaught(x, v, Jx, y, n_grad) ==
    [x |-> x, v |-> v, J |-> Jx, flag |-> 0, n |-> n_grad + 1, exc |-> "ValueError"]
StepRaisedKeepsY(x, v, Jx, y, n_grad) ==
    [x |-> y, v |-> v, J |-> Jx, flag |-> 0, n |-> n_grad + 1, exc |-> "none"]
StepRaised(x, v, Jx, y, n_grad) ==
    [x |-> x, v |-> v, J |-> Jx, flag |-> 0, n |-> n_grad + 1, exc |-> "none"]

\* One RATTLE step.  Returns (x, v, J, flag, n) with, as a trace, the
\* solver's result (proj) and whether compute_J(y) raised (Jraised).
constrained_rwm_step(manifold, x, v, tol, maxiter, Jx) ==
    LET v_projected == Sub(v, linear_project(v, Jx))
        x_unconstr == Add(x, v_projected)
        \* lines 57-67, with the solver's result proj and y and Jy = compute_J(y)
        EndOfStep(proj, y, Jy) ==
            IF ~Jy.ok
            THEN [proj |-> proj, Jraised |-> TRUE, y |-> y]
                     @@ StepRaised(x, v, Jx, y, proj.i)
            ELSE LET v_would_have == Sub(y, x)
                     v_projected_endposition ==
                         Sub(v_would_have, linear_project(v_would_have, Jy.val))
                 IN  [x |-> y, v |-> v_projected_endposition, J |-> Jy.val,
                      flag |-> proj.flag, n |-> proj.i + 1, exc |-> "none",
                      proj |-> proj, Jraised |-> FALSE, y |-> y]
        \* line 57
        AtY(proj, y) == EndOfStep(proj, y, compute_J(manifold, y))
        \* line 56
        Projected(proj) == AtY(proj, Sub(x_unconstr, Scale(proj.a, Jx)))
    IN  \* line 55
        Projected(project_zappa_manifold(manifold, x_unconstr, Jx, tol, maxiter))

\* the test that aborts a trajectory
StepFailedNoFw(converged_fw, converged_bw, xr, x, rev_tol) ==
    (converged_bw = 0) \/ Norm2GE(Sub(xr, x), rev_tol)
StepFailedNoRev(converged_fw, converged_bw, xr, x, rev_tol) ==
    (converged_fw = 0) \/ (converged_bw = 0)
StepFailed(converged_fw, converged_bw, xr, x, rev_tol) ==
    (converged_fw = 0) \/ (converged_bw = 0) \/ Norm2GE(Sub(xr, x), rev_tol)

\* what a trajectory returns when a step fails: the original inputs
AbortPartial(x0, v0, J0, x, v, J, n_jacobian_evaluations) ==
    [x |-> x, v |-> v, J |-> J, successful |-> FALSE, n |-> n_jacobian_evaluations,
     exc |-> "none"]
Abort(x0, v0, J0, x, v, J, n_jacobian_evaluations) ==
    [x |-> x0, v |-> v0, J |-> J0, successful |-> FALSE, n |-> n_jacobian_evaluations,
     exc |-> "none"]

\* line 77 with the backward step's count left out
StepCountsForwardOnly(n_fw, n_bw) ==
    n_fw

\* line 77: what one step of the trajectory adds to its count
StepCounts(n_fw, n_bw) ==
    n_fw + n_bw

RECURSIVE LeapfrogLoop(_, _, _, _, _, _, _, _, _, _, _, _, _)
\* the for loop, with k steps still to run; steps is the trace of the steps
\* run so far: [x (the pre-step position), fw, bw, failed]
LeapfrogLoop(manifold, x0, v0, J0, tol, rev_tol, maxiter, k, x, v, J, n_jacobian_evaluations, steps) ==
    IF k = 0
    THEN [x |-> x, v |-> v, J |-> J, successful |-> TRUE,
          n |-> n_jacobian_evaluations, exc |-> "none", steps |-> steps]
    ELSE LET \* lines 77-84, with the forward step fw and the backward step bw
             Checked(fw, bw, n2, failed) ==
                 LET steps2 == Append(steps, [x |-> x, v |-> v, J |-> J,
                                              fw |-> fw, bw |-> bw, failed |-> failed])
                 IN  IF fw.exc # "none" \/ bw.exc # "none"
                     THEN \* an exception of a step leaves the trajectory too
                          [x |-> x, v |-> v, J |-> J, successful |-> FALSE, n |-> n2,
                           exc |-> IF fw.exc # "none" THEN fw.exc ELSE bw.exc,
                           steps |-> steps2]
                     ELSE IF failed
                     THEN [steps |-> steps2] @@ Abort(x0, v0, J0, x, v, J, n2)
                     ELSE LeapfrogLoop(manifold, x0, v0, J0, tol, rev_tol, maxiter, k - 1,
                                       fw.x, fw.v, fw.J, n2, steps2)
             Stepped(fw, bw) ==
                 Checked(fw, bw, n_jacobian_evaluations + StepCounts(fw.n, bw.n),
                         StepFailed(fw.flag, bw.flag, bw.x, x, rev_tol))
             \* line 76
             Forward(fw) ==
                 Stepped(fw, constrained_rwm_step(manifold, fw.x, Neg(fw.v), tol,
                                                  maxiter, fw.J))
         IN  \* line 75
             Forward(constrained_rwm_step(manifold, x, v, tol, maxiter, J))

constrained_leapfrog(manifold, x0, v0, J0, B, tol, rev_tol, maxiter) ==
    LeapfrogLoop(manifold, x0, v0, J0, tol, rev_tol, maxiter, B, x0, v0, J0, 0, <<>>)

-----------------------------------------------------------------------------
(* Inputs *)

Coords == -Range .. Range
Box == Coords \X Coords
Tols == 1 .. MaxTol
MaxIters == 0 .. MaxIter

\* the Jacobians a manifold returns: what a caller can hand over as Jx or Q
Jacobians(manifold) ==
    { manifold_J(manifold, xi).val : xi \in { p \in Box : manifold_J(manifold, p).ok } }

\* the points of the lattice on the manifold to within tol
OnManifold(manifold, xi, tol) ==
    LET c == manifold_q(manifold, xi) IN c.ok /\ ~NotWithinTol(c.val, tol)

None == <<>>

-----------------------------------------------------------------------------
(* The solver on its own: any base point z, any normal direction Q *)

NewtonInit ==
    /\ pc = "newton_call"
    /\ args \in [manifold : Manifolds, z : Box, Q : UNION { Jacobians(mf) : mf \in Manifolds },
                 tol : Tols, maxiter : MaxIters]
    /\ args.Q \in Jacobians(args.manifold)
    /\ crwm = None /\ thug = None /\ ret = None /\ hist = <<>> /\ process = None

NewtonCall ==
    /\ pc = "newton_call"
    /\ ret' = project_zappa_manifold(args.manifold, args.z, args.Q, args.tol, args.maxiter)
    /\ pc' = "newton_done"
    /\ UNCHANGED <<args, crwm, thug, hist, process>>

NewtonNext == NewtonCall

SpecNewton == NewtonInit /\ [][NewtonNext]_vars

-----------------------------------------------------------------------------
(* The B-step trajectory on its own: from any point of the manifold, with   *)
(* its Jacobian, and any velocity                                           *)

Bs == 1 .. MaxB
Velocities == (-2 * MaxDraw .. 2 * MaxDraw) \X (-2 * MaxDraw .. 2 * MaxDraw)

StartPoints(manifold, tol) ==
    { p \in Box : OnManifold(manifold, p, tol) /\ manifold_J(manifold, p).ok }

LeapfrogInit ==
    /\ pc = "leapfrog_call"
    /\ args \in [manifold : Manifolds, x0 : Box, v0 : Velocities, B : Bs,
                 tol : Tols, rev_tol : Tols, maxiter : MaxIters]
    /\ args.x0 \in StartPoints(args.manifold, args.tol)
    /\ crwm = None /\ thug = None /\ ret = None /\ hist = <<>> /\ process = None

LeapfrogCall ==
    /\ pc = "leapfrog_call"
    /\ ret' = constrained_leapfrog(args.manifold, args.x0, args.v0,
                                   compute_J(args.manifold, args.x0).val,
                                   args.B, args.tol, args.rev_tol, args.maxiter)
    /\ pc' = "leapfrog_done"
    /\ UNCHANGED <<args, crwm, thug, hist, process>>

LeapfrogNext == LeapfrogCall

SpecLeapfrog == LeapfrogInit /\ [][LeapfrogNext]_vars

-----------------------------------------------------------------------------
(* zappa_sampling_storecomps_rattle_manifold: the C-RWM sampler             *)

\* the standard normal draws randn(m + d) of one iteration
Draws == { <<1, 0>>, <<-1, 1>>, <<1, 1>>, <<0, -1>> }
\* the values of log(rand()), doubled
LogUs == { -1, -6 }

\* a Python index into a sequence of length len, as a position 1..len
\* (a negative index counts from the end)
PyIndex(k, len) == IF k < 0 THEN len + k + 1 ELSE k + 1

\* logu[i] <= logeta_p - logeta_x - (vp@vp)/2 + (v@v)/2, both sides doubled;
\* with an infinite log-density the right side is -inf, +inf or nan
MHAcceptsSwapped(logu_i, logeta_p, logeta_x, vp, v) ==
    IF logeta_p.neginf THEN FALSE
    ELSE IF logeta_x.neginf THEN TRUE
    ELSE logu_i <= logeta_p.val - logeta_x.val + Dot(vp, vp) - Dot(v, v)
MHAccepts(logu_i, logeta_p, logeta_x, vp, v) ==
    IF logeta_p.neginf THEN FALSE
    ELSE IF logeta_x.neginf THEN TRUE
    ELSE logu_i <= logeta_p.val - logeta_x.val - Dot(vp, vp) + Dot(v, v)

\* the index i - 1 kept from going below 0
AcceptedIndexClamped(i) == IF i = 0 THEN 0 ELSE i - 1

\* the index of ACCEPTED an iteration writes, and the index of samples
AcceptedIndex(i) == i - 1
SamplesIndexShifted(i) == i - 1
SamplesIndex(i) == i

\* the row an iteration stores when it rejects
RejectedRow(x, xp) == x

\* the initial points a driver hands to a sampler: for a parameter theta, the
\* noise coordinate solved from the constraint
SolvedPoint(manifold, theta) ==
    <<theta, RDiv(manifold.ystar - theta * theta, manifold.sigma)>>
InitialPoints(manifold, tol) ==
    { SolvedPoint(manifold, theta) : theta \in Coords } \cap StartPoints(manifold, tol)

\* manifold.n, the dimension of the ambient space (m + d)
AmbientDim == 2
\* initial points of a wrong length, and the types a caller may give B
WrongLengthPoints == { <<0>>, <<0, 0, 0>> }
BTypes == { "int", "float" }

\* lines 9-11: assert type(B) == int, assert len(x0) == manifold.n (norm_ord
\* is 2 throughout).  The exception raised, or "none".
AssertArgumentsNoType(B_type, x0) ==
    IF Len(x0) # AmbientDim THEN "AssertionError" ELSE "none"
AssertArguments(B_type, x0) ==
    IF B_type # "int" THEN "AssertionError"
    ELSE IF Len(x0) # AmbientDim THEN "AssertionError" ELSE "none"

CrwmInit ==
    /\ pc = "crwm_call"
    /\ args \in [manifold : Manifolds, x0 : Box \cup WrongLengthPoints, n : 0 .. MaxN,
                 T : 1 .. 2 * MaxB, B : Bs, B_type : BTypes,
                 tol : Tols, rev_tol : Tols, maxiter : MaxIters]
    /\ \/ args.x0 \in WrongLengthPoints
       \/ args.x0 \in Box /\ args.x0 \in InitialPoints(args.manifold, args.tol)
    /\ args.T \in {args.B, 2 * args.B}
    /\ args.rev_tol = args.tol
    /\ args.maxiter = MaxIter
    /\ crwm = None /\ thug = None /\ ret = None /\ hist = <<>> /\ process = None

\* lines 9-40: everything before the loop
CrwmSetup ==
    /\ pc = "crwm_call"
    /\ LET n == args.n
           delta == args.T \div args.B
           x == args.x0
       IN  IF AssertArguments(args.B_type, args.x0) # "none"
           THEN \* an assertion of lines 9-11 fails: nothing else has run
                /\ pc' = "crwm_raised"
                /\ ret' = AssertArguments(args.B_type, args.x0)
                /\ crwm' = crwm
           ELSE IF n = 0
           THEN \* samples[0, :] = x on an array of no rows
                /\ pc' = "crwm_raised"
                /\ ret' = "IndexError"
                /\ crwm' = crwm
           ELSE \E logu \in [1 .. n -> LogUs] :
                /\ crwm' = [delta |-> delta,
                            x |-> x,
                            samples |-> [k \in 1 .. n |-> IF k = 1 THEN x ELSE zeros2],
                            i |-> 0,
                            N_EVALS |-> [jacobian |-> 1, density |-> 1],
                            ACCEPTED |-> [k \in 1 .. n |-> 0],
                            logu |-> logu,
                            Jx |-> compute_J(args.manifold, x).val,
                            logeta_x |-> manifold_logeta(args.manifold, x)]
                /\ pc' = "crwm_loop"
                /\ ret' = ret
    /\ UNCHANGED <<args, thug, hist, process>>

\* line 97 with the candidate's Jacobian dropped: the cache keeps the old one
AcceptedStateStaleJ(Jx, xp, logeta_p, Jp) ==
    [x |-> xp, logeta_x |-> logeta_p, Jx |-> Jx]

\* line 97: x, logηx, Jx = xp, logηp, Jp
AcceptedState(Jx, xp, logeta_p, Jp) ==
    [x |-> xp, logeta_x |-> logeta_p, Jx |-> Jp]

\* line 93 without its guard of line 91: every iteration counts an evaluation
DensityEvalsEveryPass(density, LEAPFROG_SUCCESSFUL) ==
    density + 1

\* lines 91-93: the density is evaluated, and counted, on a successful trajectory
DensityEvals(density, LEAPFROG_SUCCESSFUL) ==
    IF LEAPFROG_SUCCESSFUL THEN density + 1 ELSE density

\* lines 87-106: one pass of the loop, with i the index of the pass
CrwmIterate ==
    /\ pc = "crwm_loop"
    /\ crwm.i < args.n
    /\ \E draw \in Draws :
       \E lf \in { constrained_leapfrog(args.manifold, crwm.x, Scale(crwm.delta, draw),
                                         crwm.Jx, args.B, args.tol, args.rev_tol,
                                         args.maxiter) } :
         LET i == crwm.i
             n == args.n
             x == crwm.x
             v == Scale(crwm.delta, draw)
             xp == lf.x
             vp == lf.v
             Jp == lf.J
             jac == crwm.N_EVALS.jacobian + lf.n
             logeta_p == manifold_logeta(args.manifold, xp)
             accept == lf.successful
                       /\ MHAccepts(crwm.logu[i + 1], logeta_p, crwm.logeta_x, vp, v)
             arow == PyIndex(AcceptedIndex(i), n)
             srow == PyIndex(SamplesIndex(i), n)
             acc == AcceptedState(crwm.Jx, xp, logeta_p, Jp)
             h == [i |-> i, x |-> x, v |-> v, lf |-> lf, accept |-> accept,
                   arow |-> arow, srow |-> srow,
                   Jx |-> crwm.Jx, logeta_x |-> crwm.logeta_x,
                   N_EVALS |-> crwm.N_EVALS]
         IN  IF lf.exc # "none"
             THEN \* an exception of the trajectory leaves the sampler
                  /\ pc' = "crwm_raised"
                  /\ ret' = lf.exc
                  /\ crwm' = [crwm EXCEPT !.N_EVALS.jacobian = jac]
                  /\ hist' = hist
             ELSE /\ crwm' = [crwm EXCEPT
                        !.i = i + 1,
                        !.N_EVALS = [jacobian |-> jac,
                                     density |-> DensityEvals(@.density, lf.successful)],
                        !.ACCEPTED[arow] = IF accept THEN 1 ELSE 0,
                        !.x = IF accept THEN acc.x ELSE x,
                        !.logeta_x = IF accept THEN acc.logeta_x ELSE @,
                        !.Jx = IF accept THEN acc.Jx ELSE @,
                        !.samples[srow] = IF accept THEN xp ELSE RejectedRow(x, xp)]
                  /\ hist' = Append(hist, h)
                  /\ UNCHANGED <<pc, ret>>
    /\ UNCHANGED <<args, thug, process>>

\* line 107
CrwmReturn ==
    /\ pc = "crwm_loop"
    /\ crwm.i = args.n
    /\ ret' = [samples |-> crwm.samples, N_EVALS |-> crwm.N_EVALS,
               ACCEPTED |-> crwm.ACCEPTED]
    /\ pc' = "crwm_returned"
    /\ UNCHANGED <<args, crwm, thug, hist, process>>

CrwmNext == CrwmSetup \/ CrwmIterate \/ CrwmReturn

Spec == CrwmInit /\ [][CrwmNext]_vars

-----------------------------------------------------------------------------
(* THUG: the Tangential Hug sampler                                         *)
(*                                                                          *)
(* jac is the caller's Jacobian function: beyond the manifold's range its   *)
(* arithmetic overflows, which numpy reports as a RuntimeWarning and a      *)
(* result of infs and nans.  logpi is the ABC posterior of the manifold     *)
(* (generate_logeta-epsilon with epsilon = 1), doubled.  A quantity computed *)
(* from a nan is nan, and a comparison with nan is false.                   *)

\* jac(x): [warn, val]; with warn the value holds no finite numbers
jac(manifold, x) ==
    [warn |-> Overflows(x, manifold.jlim), val |-> <<2 * x[1], manifold.sigma>>]

\* logpi(xi) = logprior(xi) - u@u/2: [ok, val], ok = FALSE when manifold.q raises
logpi(manifold, xi) ==
    LET u == manifold_q(manifold, xi)
    IN  IF ~u.ok THEN Raised ELSE Value(-Dot(xi, xi) - u.val * u.val)

\* the four projectors onto the row space of J: the same linear map
qr_project(v, J) == Scale(RDiv(Dot(J, v), Dot(J, J)), J)
lstsq_project(v, J) == Scale(RDiv(Dot(J, v), Dot(J, J)), J)
project_2d(v, g) == Scale(RDiv(Dot(g, v), Dot(g, g)), g)
project(method, v, J) ==
    CASE method = "qr" -> qr_project(v, J)
      [] method = "linear" -> linear_project(v, J)
      [] method = "lstsq" -> lstsq_project(v, J)
      [] OTHER -> project_2d(v, J)

\* safe_jacobian_function(x): filterwarnings('error') is called on the
\* process-wide filters (catch_warnings() is built and never entered), then
\* jac(x) runs; its RuntimeWarning is raised as an exception and turned into
\* ValueError.  Result: [exc, nan, val, filters].
SafeJacobianSwallows(manifold, x, filters) ==
    LET r == jac(manifold, x)
    IN  [exc |-> "none", nan |-> r.warn, val |-> r.val, filters |-> "error"]
safe_jacobian_function(manifold, x, filters) ==
    LET r == jac(manifold, x)
    IN  IF r.warn
        THEN [exc |-> "ValueError", nan |-> FALSE, val |-> r.val, filters |-> "error"]
        ELSE [exc |-> "none", nan |-> FALSE, val |-> r.val, filters |-> "error"]

\* safe_jac = safe_jacobian_function if safe else jac.  Called bare, jac's
\* RuntimeWarning is handled by the filters in force: raised when they say
\* 'error', otherwise reported and the nan result returned.
safe_jac(safe, manifold, x, filters) ==
    IF safe THEN safe_jacobian_function(manifold, x, filters)
    ELSE LET r == jac(manifold, x)
         IN  IF r.warn /\ filters = "error"
             THEN [exc |-> "RuntimeWarning", nan |-> FALSE, val |-> r.val,
                   filters |-> filters]
             ELSE [exc |-> "none", nan |-> r.warn, val |-> r.val, filters |-> filters]

\* alpha * w and (alpha / (1 - alpha)) * w, for alpha = num/den
TimesAlpha(alpha, w) == <<RDiv(alpha.num * w[1], alpha.den), RDiv(alpha.num * w[2], alpha.den)>>
TimesAlphaRatio(alpha, w) ==
    <<RDiv(alpha.num * w[1], alpha.den - alpha.num),
      RDiv(alpha.num * w[2], alpha.den - alpha.num)>>

\* x + delta*v/2
HalfStep(x, delta, v) == Add(x, <<RDiv(delta * v[1], 2), RDiv(delta * v[2], 2)>>)

\* scipy's qr and lstsq check their argument (check_finite) and raise
\* ValueError on a Jacobian of infs or nans; numpy's solve and norm compute
\* with them and return nans
ProjectRaises(method, nan) == nan /\ method \in {"qr", "lstsq"}

\* safe_jac(x) at the position x of a pass; at a nan position (nan) the
\* Jacobian is nan and nothing is reported
JacobianAt(a, x, nan, filters) ==
    IF nan THEN [exc |-> "none", nan |-> TRUE, val |-> jac(a.manifold, x).val,
                 filters |-> filters]
    ELSE safe_jac(a.safe, a.manifold, x, filters)

\* line 108 without the factor 2: the velocity is projected, not reflected
ReflectProjectsOnly(method, v, J) ==
    Sub(v, project(method, v, J))

\* line 108: v - 2 * project(v, J)
Reflect(method, v, J) ==
    Sub(v, Scale(2, project(method, v, J)))

RECURSIVE BounceLoop(_, _, _, _, _, _, _, _, _)
\* the B bounces, k still to run: [exc, where, x, v, nan, filters, njac, trace];
\* trace holds, for each bounce begun, the half-step position x at which the
\* Jacobian was asked for and the velocity v the bounce went on with
BounceLoop(a, delta, k, x, v, nan, filters, njac, trace) ==
    IF k = 0
    THEN [exc |-> "none", where |-> "none", x |-> x, v |-> v, nan |-> nan,
          filters |-> filters, njac |-> njac, trace |-> trace]
    ELSE LET \* line 109, with the reflected velocity v1
             Landed(x1, Jx1, v1) ==
                 BounceLoop(a, delta, k - 1, HalfStep(x1, delta, v1), v1,
                            nan \/ Jx1.nan, Jx1.filters, njac + 1,
                            Append(trace, [x |-> x1, v |-> v1]))
             \* line 108, with Jx1 = safe_jac(x1)
             Reflected(x1, Jx1) ==
                 IF Jx1.exc # "none"
                 THEN [exc |-> Jx1.exc, where |-> "bounce", x |-> x1, v |-> v,
                       nan |-> nan, filters |-> Jx1.filters, njac |-> njac + 1,
                       trace |-> Append(trace, [x |-> x1, v |-> v])]
                 ELSE IF ProjectRaises(a.method, Jx1.nan)
                 THEN [exc |-> "ValueError", where |-> "project", x |-> x1, v |-> v,
                       nan |-> nan, filters |-> Jx1.filters, njac |-> njac + 1,
                       trace |-> Append(trace, [x |-> x1, v |-> v])]
                 ELSE Landed(x1, Jx1, Reflect(a.method, v, Jx1.val))
             Moved(x1) == Reflected(x1, JacobianAt(a, x1, nan, filters))
         IN  \* line 107
             Moved(HalfStep(x, delta, v))

\* logu <= logpi(x) + q.logpdf(v) - logpi(x0) - q.logpdf(v0s), doubled
HugAccepts(logu, logpi_x, v, logpi_x0, v0s) ==
    logu <= logpi_x - Dot(v, v) - logpi_x0 + Dot(v0s, v0s)

\* One pass of the loop (lines 100-118) from state x0 with the draws v0s and
\* logu: [exc, where, accept, x, v0, vin, vout, v, nan, filters, njac]
\*   exc    the exception that left the pass, or "none"
\*   where  the Jacobian evaluation that raised ("squeeze", "bounce",
\*          "unsqueeze"), or "project" for a projector and "logpi"
\*   vin/vout  the velocity entering and leaving the bounces
\*   vin_nan, vout_nan, nan  whether vin, vout and v (with x) are nan: the
\*             numbers in those fields are then of no use
ThugPass(a, x0, v0s, logu, filters) ==
    LET delta == a.T \div a.B
        \* the pass, with J0 = safe_jac(x0), the squeezed velocity v0, the
        \* result b of the bounces, Jend = safe_jac(x) and the two log-densities
        Pass(J0, v0, b, Jend, lx, lx0) ==
            LET v == Add(b.v, TimesAlphaRatio(a.alpha, project(a.method, b.v, Jend.val)))
                nan == b.nan \/ Jend.nan
                base == [exc |-> "none", where |-> "none", accept |-> FALSE, x |-> x0,
                         v0 |-> v0, vin |-> v0, vout |-> v0, v |-> v0, nan |-> FALSE,
                         vin_nan |-> J0.nan, vout_nan |-> J0.nan,
                         filters |-> filters, njac |-> 0, trace |-> <<>>]
            IN  IF J0.exc # "none"
                THEN [base EXCEPT !.exc = J0.exc, !.where = "squeeze",
                                  !.filters = J0.filters, !.njac = 1]
                ELSE IF ProjectRaises(a.method, J0.nan)
                THEN [base EXCEPT !.exc = "ValueError", !.where = "project",
                                  !.filters = J0.filters, !.njac = 1]
                ELSE IF b.exc # "none"
                THEN [base EXCEPT !.exc = b.exc, !.where = b.where, !.x = b.x,
                                  !.filters = b.filters, !.njac = b.njac,
                                  !.trace = b.trace]
                ELSE IF Jend.exc # "none"
                THEN [base EXCEPT !.exc = Jend.exc, !.where = "unsqueeze", !.x = b.x,
                                  !.vout = b.v, !.vout_nan = b.nan, !.filters = Jend.filters,
                                  !.njac = b.njac + 1, !.trace = b.trace]
                ELSE IF ProjectRaises(a.method, Jend.nan)
                THEN [base EXCEPT !.exc = "ValueError", !.where = "project", !.x = b.x,
                                  !.vout = b.v, !.vout_nan = b.nan, !.filters = Jend.filters,
                                  !.njac = b.njac + 1, !.trace = b.trace]
                ELSE IF (~b.nan /\ ~lx.ok) \/ ~lx0.ok
                THEN \* logpi raised (at a nan position it returns nan instead)
                     [base EXCEPT !.exc = "ValueError", !.where = "logpi", !.x = b.x,
                                  !.vout = b.v, !.vout_nan = b.nan, !.filters = Jend.filters,
                                  !.njac = b.njac + 1, !.trace = b.trace]
                ELSE [base EXCEPT
                          !.accept = ~nan /\ HugAccepts(logu, lx.val, v, lx0.val, v0s),
                          !.x = b.x, !.vout = b.v, !.vout_nan = b.nan, !.v = v, !.nan = nan,
                          !.filters = Jend.filters, !.njac = b.njac + 1,
                          !.trace = b.trace]
        \* lines 111-112
        Bounced(J0, v0, b) ==
            Pass(J0, v0, b, JacobianAt(a, b.x, b.nan, b.filters),
                 logpi(a.manifold, b.x), logpi(a.manifold, x0))
        \* lines 106-109
        Squeezed(J0, v0) ==
            Bounced(J0, v0, BounceLoop(a, delta, a.B, x0, v0, J0.nan, J0.filters, 1, <<>>))
        \* line 102
        Evaluated(J0) ==
            Squeezed(J0, Sub(v0s, TimesAlpha(a.alpha, project(a.method, v0s, J0.val))))
    IN  Evaluated(safe_jac(a.safe, a.manifold, x0, filters))

\* vstack((samples, x)): samples is the vector x0 before the first pass and
\* a sequence of rows afterwards
vstack(samples, x, i) == IF i = 0 THEN <<samples, x>> ELSE Append(samples, x)

\* the row a rejecting pass stacks
RejectedHugRowEndpoint(x0, x) == x
RejectedHugRow(x0, x) == x0

Alphas == { [num |-> 0, den |-> 1], [num |-> 1, den |-> 2] }

ThugInit ==
    /\ pc = "thug_call"
    /\ args \in [manifold : Manifolds, x0 : Box, T : 1 .. 2 * MaxB, B : Bs, N : 0 .. MaxN,
                 alpha : Alphas, method : {"qr", "linear"}, safe : BOOLEAN]
    /\ args.x0 \in { SolvedPoint(args.manifold, theta) : theta \in Coords }
    /\ args.T = 2 * args.B
    /\ crwm = None /\ thug = None /\ ret = None /\ hist = <<>> /\ process = None

\* lines 58-97: everything before the loop
ThugSetup ==
    /\ pc = "thug_call"
    /\ thug' = [x0 |-> args.x0, samples |-> args.x0,
                acceptances |-> [k \in 1 .. args.N |-> 0], i |-> 0,
                filters |-> "default"]
    /\ pc' = "thug_loop"
    /\ UNCHANGED <<args, crwm, ret, hist, process>>

\* lines 99-118: one pass of the loop
ThugIterate ==
    /\ pc = "thug_loop"
    /\ thug.i < args.N
    /\ \E v0s \in Draws, logu \in LogUs :
       \E r \in { ThugPass(args, thug.x0, v0s, logu, thug.filters) } :
         LET h == [i |-> thug.i, x0 |-> thug.x0, v0s |-> v0s, logu |-> logu, r |-> r]
         IN  /\ hist' = Append(hist, h)
             /\ IF r.exc # "none"
                THEN \* nothing in THUG catches it: the call ends
                     /\ pc' = "thug_raised"
                     /\ ret' = r.exc
                     /\ thug' = [thug EXCEPT !.filters = r.filters]
                ELSE /\ thug' = [thug EXCEPT
                           !.samples = vstack(@, IF r.accept THEN r.x
                                                 ELSE RejectedHugRow(thug.x0, r.x), thug.i),
                           !.acceptances[thug.i + 1] = IF r.accept THEN 1 ELSE 0,
                           !.x0 = IF r.accept THEN r.x ELSE @,
                           !.i = @ + 1,
                           !.filters = r.filters]
                     /\ UNCHANGED <<pc, ret>>
    /\ UNCHANGED <<args, crwm, process>>

\* line 119: samples[1:], acceptances
ThugReturn ==
    /\ pc = "thug_loop"
    /\ thug.i = args.N
    /\ ret' = [samples |-> Tail(thug.samples), acceptances |-> thug.acceptances]
    /\ pc' = "thug_returned"
    /\ UNCHANGED <<args, crwm, thug, hist, process>>

ThugNext == ThugSetup \/ ThugIterate \/ ThugReturn

SpecThug == ThugInit /\ [][ThugNext]_vars

-----------------------------------------------------------------------------
(* Chains in one process.  A driver runs several sampler calls in the same  *)
(* Python process, their statements interleaved (threads, or generators     *)
(* advanced in turn).  A random source is modelled by its state, the number *)
(* of values taken from it so far: the value of a draw is a function of the *)
(* source, its seed and that state.  rand, randn and randint are the        *)
(* functions of the module numpy.random, which all draw from the one        *)
(* RandomState of the process (np_random).  Each chain logs its draws in    *)
(* drawn: [call, source, state, mine], state being the source's state at    *)
(* the draw and mine the number of values this chain had taken from that    *)
(* source before.                                                           *)

Chains == 1 .. MaxChains

\* a draw of k values from the process-wide RandomState by chain c
GlobalDraw(p, c, call, k) ==
    LET ch == p.chains[c]
    IN  [p EXCEPT !.np_random = @ + k,
                  !.chains[c].from_global = @ + k,
                  !.chains[c].drawn = Append(@, [call |-> call, source |-> "np_random",
                                                 state |-> p.np_random,
                                                 mine |-> ch.from_global])]

\* a draw of k values from the Generator rng of chain c
GeneratorDraw(p, c, call, k) ==
    LET ch == p.chains[c]
    IN  [p EXCEPT !.chains[c].generator = @ + k,
                  !.chains[c].drawn = Append(@, [call |-> call, source |-> "rng",
                                                 state |-> ch.generator,
                                                 mine |-> ch.generator])]

ChainsInit ==
    /\ pc = "chains"
    /\ process \in [np_random : {0},
                    chains : [Chains -> [sampler : {"crwm", "thug"}, rng : {"None", "Generator"},
                                         n : 1 .. MaxN, at : {"call"}, i : {0},
                                         from_global : {0}, generator : {0},
                                         drawn : {<<>>}]]]
    /\ \A c \in Chains : process.chains[c].sampler = "crwm" => process.chains[c].rng = "None"
    /\ args = None /\ crwm = None /\ thug = None /\ ret = None /\ hist = <<>>

\* C-RWM line 34: logu = log(rand(n))
ChainCrwmSetup(c) ==
    /\ process.chains[c].sampler = "crwm" /\ process.chains[c].at = "call"
    /\ process' = [GlobalDraw(process, c, "rand", process.chains[c].n)
                       EXCEPT !.chains[c].at = "loop"]
    /\ UNCHANGED <<pc, args, crwm, thug, ret, hist>>

\* C-RWM line 88: v = delta*randn(m + d)
ChainCrwmIterate(c) ==
    /\ process.chains[c].sampler = "crwm" /\ process.chains[c].at = "loop"
    /\ process.chains[c].i < process.chains[c].n
    /\ process' = [GlobalDraw(process, c, "randn", AmbientDim)
                       EXCEPT !.chains[c].i = @ + 1]
    /\ UNCHANGED <<pc, args, crwm, thug, ret, hist>>

\* THUG lines 59-60: rng = default_rng(seed=randint(low=1000, high=9999))
\* when the caller gave no rng
ChainThugSetup(c) ==
    /\ process.chains[c].sampler = "thug" /\ process.chains[c].at = "call"
    /\ process' = [(IF process.chains[c].rng = "None"
                     THEN GlobalDraw(process, c, "randint", 1)
                     ELSE process)
                       EXCEPT !.chains[c].at = "loop"]
    /\ UNCHANGED <<pc, args, crwm, thug, ret, hist>>

\* THUG lines 100 and 104: v0s = rng.normal(size=len(x0)), rng.uniform()
ChainThugIterate(c) ==
    /\ process.chains[c].sampler = "thug" /\ process.chains[c].at = "loop"
    /\ process.chains[c].i < process.chains[c].n
    /\ process' = [GeneratorDraw(GeneratorDraw(process, c, "normal", AmbientDim),
                                 c, "uniform", 1)
                       EXCEPT !.chains[c].i = @ + 1]
    /\ UNCHANGED <<pc, args, crwm, thug, ret, hist>>

\* C-RWM line 107, THUG line 119
ChainReturn(c) ==
    /\ process.chains[c].at = "loop"
    /\ process.chains[c].i = process.chains[c].n
    /\ process' = [process EXCEPT !.chains[c].at = "returned"]
    /\ UNCHANGED <<pc, args, crwm, thug, ret, hist>>

ChainsNext ==
    \E c \in Chains :
        \/ ChainCrwmSetup(c)
        \/ ChainCrwmIterate(c)
        \/ ChainThugSetup(c)
        \/ ChainThugIterate(c)
        \/ ChainReturn(c)

SpecChains == ChainsInit /\ [][ChainsNext]_vars

-----------------------------------------------------------------------------
(* Properties of the C-RWM sampler, checked under Spec *)

\* the constraint at p evaluates and its norm is below tol
WithinTol(manifold, p, tol) ==
    LET c == manifold_q(manifold, p) IN c.ok /\ Abs(c.val) < tol

\* the current state after the k-th finished iteration
StateAfter(k) == IF k < Len(hist) THEN hist[k + 1].x ELSE crwm.x

\* the failure of the step that ended a failed trajectory
LastStep(lf) == lf.steps[Len(lf.steps)]
DomainErrorIn(st) == st.Jraised \/ st.proj.why \in {"q_raised_first", "Q_raised", "q_raised"}
DomainError(lf) == DomainErrorIn(LastStep(lf).fw) \/ DomainErrorIn(LastStep(lf).bw)
SingularGram(lf) == LastStep(lf).fw.proj.why = "singular" \/ LastStep(lf).bw.proj.why = "singular"
NonConvergence(lf) == LastStep(lf).fw.proj.why = "maxiter" \/ LastStep(lf).bw.proj.why = "maxiter"
ReversibilityFailure(lf) ==
    /\ LastStep(lf).fw.flag = 1 /\ LastStep(lf).bw.flag = 1
    /\ Norm2GE(Sub(LastStep(lf).bw.x, LastStep(lf).x), args.rev_tol)

\* C1: an iteration adopts its candidate only when every forward projection of
\* its B-step trajectory succeeded (solver flag 1, Jacobian evaluated), the
\* candidate is that trajectory's endpoint and its constraint norm is below
\* tol; the current state and every chain row written are such points or the
\* initial point, never the point a failed projection produced.
C1_AdoptedCandidateProjected ==
    pc \in {"crwm_loop", "crwm_returned"} =>
        /\ \A k \in 1 .. Len(hist) :
             LET h == hist[k] IN
             /\ StateAfter(k) \in {h.x, h.lf.x}
             /\ crwm.samples[h.srow] = StateAfter(k)
             /\ StateAfter(k) # h.x => h.accept
             /\ h.accept =>
                  /\ StateAfter(k) = h.lf.x
                  /\ Len(h.lf.steps) = args.B
                  /\ \A j \in 1 .. args.B :
                       /\ h.lf.steps[j].fw.proj.flag = 1
                       /\ ~h.lf.steps[j].fw.Jraised
                  /\ h.lf.x = h.lf.steps[args.B].fw.y
                  /\ WithinTol(args.manifold, h.lf.x, args.tol)
        /\ WithinTol(args.manifold, crwm.x, args.tol)

\* C1 witness: a two-step trajectory whose projections iterated was adopted,
\* after an iteration whose forward projection failed was rejected
C1_Witness ==
    /\ pc = "crwm_returned" /\ Len(hist) = 2 /\ args.B = 2
    /\ ~hist[1].lf.successful /\ LastStep(hist[1].lf).fw.proj.flag = 0
    /\ hist[2].accept /\ hist[2].lf.x # hist[2].x
    /\ \E j \in 1 .. 2 : hist[2].lf.steps[j].fw.proj.i >= 1

\* C2: no failure inside a trajectory ends the run.  The sampler raises only
\* before its loop; an iteration whose trajectory failed wrote flag 0, stored
\* the unchanged position as its row and left the position untouched; the
\* loop goes on and the sampler returns after n iterations.
C2_FailuresAreRejections ==
    /\ pc = "crwm_raised" => crwm = None /\ hist = <<>>
    /\ pc \in {"crwm_loop", "crwm_returned"} =>
        /\ crwm.i = Len(hist)
        /\ \A k \in 1 .. Len(hist) :
             LET h == hist[k] IN
             ~h.lf.successful =>
                /\ DomainError(h.lf) \/ SingularGram(h.lf) \/ NonConvergence(h.lf)
                      \/ ReversibilityFailure(h.lf)
                /\ ~h.accept
                /\ crwm.ACCEPTED[h.arow] = 0
                /\ crwm.samples[h.srow] = h.x
                /\ StateAfter(k) = h.x
    /\ pc = "crwm_loop" => crwm.i <= args.n /\ Draws # {}
    /\ pc = "crwm_returned" => Len(hist) = args.n

\* C2 witness: a run that returned after a domain error in its first
\* iteration and a failure of another kind in its second
C2_Witness ==
    /\ pc = "crwm_returned" /\ Len(hist) = 2
    /\ ~hist[1].lf.successful /\ DomainError(hist[1].lf)
    /\ ~hist[2].lf.successful /\ ~DomainError(hist[2].lf)

\* C8 as claimed: in the output, ACCEPTED[i] = 1 exactly when the iteration
\* that wrote row i accepted
C8_FlagsAligned ==
    pc = "crwm_returned" =>
        \A k \in 1 .. args.n :
            (ret.ACCEPTED[hist[k].srow] = 1) <=> hist[k].accept

\* C9: the chain has n rows; iteration i wrote row i, the trajectory endpoint
\* when it accepted and otherwise the state it started from, which is row
\* i - 1 (the initial point for the first iteration); its trajectory started
\* from that state.
C9_ChainRows ==
    pc = "crwm_returned" =>
        /\ Len(ret.samples) = args.n
        /\ Len(hist) = args.n
        /\ \A k \in 1 .. args.n :
             LET h == hist[k] IN
             /\ h.srow = k
             /\ ret.samples[k] = IF h.accept THEN h.lf.x ELSE h.x
             /\ h.x = IF k = 1 THEN args.x0 ELSE ret.samples[k - 1]
             /\ h.lf.steps[1].x = h.x

\* C9 witness: two iterations, the first accepted a move, the second rejected
C9_Witness ==
    /\ pc = "crwm_returned" /\ args.n = 2
    /\ hist[1].accept /\ ret.samples[1] # args.x0
    /\ ~hist[2].accept /\ ret.samples[2] = ret.samples[1]

-----------------------------------------------------------------------------
(* Properties of THUG, checked under SpecThug *)

\* the points at which pass r, started at x0, evaluated the Jacobian
JacobianPoints(x0, r) ==
    SubSeq(<<x0>> \o [j \in 1 .. Len(r.trace) |-> r.trace[j].x] \o <<r.x>>, 1, r.njac)

\* some Jacobian evaluation of the pass met a numeric-domain failure
JacobianFailed(x0, r) ==
    \E j \in 1 .. r.njac : jac(args.manifold, JacobianPoints(x0, r)[j]).warn

\* THUG's current state after the k-th pass
HugStateAfter(k) == IF k < Len(hist) THEN hist[k + 1].x0 ELSE thug.x0

C10_HugRowsAndFlags ==
    pc = "thug_returned" /\ args.N >= 1 =>
        /\ Len(ret.samples) = args.N
        /\ Len(ret.acceptances) = args.N
        /\ Len(hist) = args.N
        /\ hist[1].x0 = args.x0
        /\ \A k \in 1 .. args.N :
             LET h == hist[k] IN
             /\ ret.acceptances[k] \in {0, 1}
             /\ ret.acceptances[k] = 1 <=> h.r.accept
             /\ ret.acceptances[k] = 1 =>
                    ret.samples[k] = h.r.x /\ HugStateAfter(k) = h.r.x
             /\ ret.acceptances[k] = 0 =>
                    ret.samples[k] = h.x0 /\ HugStateAfter(k) = h.x0

\* C10 witness: the first pass accepted a move and the second rejected one
C10_Witness ==
    /\ pc = "thug_returned" /\ args.N = 2
    /\ ret.acceptances = <<1, 0>>
    /\ ret.samples[1] # args.x0 /\ ret.samples[2] = ret.samples[1]
    /\ hist[2].r.x # hist[2].x0

-----------------------------------------------------------------------------
(* Properties of the trajectory, checked under SpecLeapfrog *)

J_x0 == compute_J(args.manifold, args.x0).val

\* the test of line 78, on the step's trace
StepBroke(st) ==
    st.fw.flag = 0 \/ st.bw.flag = 0 \/ ~Norm2LT(Sub(st.bw.x, st.x), args.rev_tol)

\* C4: if some step of the trajectory broke (forward or backward step not
\* converged, or reversibility distance not below rev_tol), the trajectory
\* returns its inputs x0, v0, J0 and the failure flag, whatever the earlier
\* steps did.
C4_AllOrNothing ==
    pc = "leapfrog_done" =>
        ((\E k \in 1 .. Len(ret.steps) : StepBroke(ret.steps[k])) =>
            /\ ~ret.successful
            /\ ret.x = args.x0 /\ ret.v = args.v0 /\ ret.J = J_x0)

\* C4 witness: the second step broke after a first step that moved
C4_Witness ==
    /\ pc = "leapfrog_done" /\ Len(ret.steps) = 2
    /\ ~StepBroke(ret.steps[1]) /\ ret.steps[1].fw.x # args.x0
    /\ StepBroke(ret.steps[2]) /\ ~ret.successful

\* C5: a trajectory that reports success ran B steps, each from the previous
\* step's forward result, and in each the forward step converged, the step
\* from (xf, -vf, Jf) converged and came back to within rev_tol (strictly) of
\* the position before that step; it returns the last forward result.
C5_SuccessMeansReversible ==
    pc = "leapfrog_done" /\ ret.successful =>
        /\ Len(ret.steps) = args.B
        /\ \A k \in 1 .. args.B :
             LET st == ret.steps[k] IN
             /\ st.x = IF k = 1 THEN args.x0 ELSE ret.steps[k - 1].fw.x
             /\ st.v = IF k = 1 THEN args.v0 ELSE ret.steps[k - 1].fw.v
             /\ st.J = IF k = 1 THEN J_x0 ELSE ret.steps[k - 1].fw.J
             /\ st.fw.flag = 1 /\ st.bw.flag = 1
             /\ st.bw = constrained_rwm_step(args.manifold, st.fw.x, Neg(st.fw.v),
                                             args.tol, args.maxiter, st.fw.J)
             /\ Norm2LT(Sub(st.bw.x, st.x), args.rev_tol)
        /\ ret.x = ret.steps[args.B].fw.x
        /\ ret.v = ret.steps[args.B].fw.v
        /\ ret.J = ret.steps[args.B].fw.J

\* C5 witness: a successful two-step trajectory whose second backward step
\* lands within rev_tol of the position before it and not of the start
C5_Witness ==
    /\ pc = "leapfrog_done" /\ ret.successful /\ args.B = 2
    /\ Norm2GE(Sub(ret.steps[2].bw.x, args.x0), args.rev_tol)

-----------------------------------------------------------------------------
(* Properties of the solver, checked under SpecNewton *)

\* C6: on success the constraint at z - Q*a, for the a returned, evaluates to
\* a value of norm below tol, and it is the value the solver evaluated last;
\* when the loop condition was never found false the flag is 0.
C6_SuccessWithinTol ==
    pc = "newton_done" =>
        /\ ret.flag = 1 =>
             LET c == manifold_q(args.manifold, Sub(args.z, Scale(ret.a, args.Q)))
             IN  /\ c.ok /\ Abs(c.val) < args.tol
                 /\ ret.qok /\ ret.qa = ret.a /\ ret.qval = c.val
        /\ ~ret.met => ret.flag = 0
        /\ ret.flag \in {0, 1}

\* C6 witness: success after two updates of a
C6_Witness == pc = "newton_done" /\ ret.flag = 1 /\ ret.i = 2 /\ ret.a # 0

\* C7: the solver updates a at most maxiter + 1 times, returns failure when
\* the count exceeds maxiter, and a success reports a count of at most maxiter.
C7_IterationCap ==
    pc = "newton_done" =>
        /\ ret.nupd <= args.maxiter + 1
        /\ ret.i = ret.nupd
        /\ ret.i > args.maxiter => ret.flag = 0 /\ ret.why = "maxiter"
        /\ ret.flag = 1 => ret.i <= args.maxiter

\* C7 witness: the cap ended a solve after maxiter + 1 updates
C7_Witness ==
    /\ pc = "newton_done" /\ args.maxiter = MaxIter
    /\ ret.why = "maxiter" /\ ret.nupd = args.maxiter + 1

-----------------------------------------------------------------------------
(* Properties of the sampler's entry, checked under Spec *)

\* C11: C-RWM called with an initial point of the wrong length or a step
\* count that is not an int raises at once: the call ends by AssertionError
\* with none of its locals bound (no Jacobian, density or constraint was
\* evaluated, no log-uniform or velocity drawn), no iteration has run and
\* nothing is returned.
C11_BadArgumentsFailFirst ==
    (args.B_type # "int" \/ Len(args.x0) # AmbientDim) =>
        /\ pc \in {"crwm_call", "crwm_raised"}
        /\ pc = "crwm_raised" => ret = "AssertionError"
        /\ crwm = None
        /\ hist = <<>>

\* C11 witness: a call asking for samples, with an int step count and an
\* initial point one coordinate too long, has raised
C11_Witness ==
    /\ pc = "crwm_raised" /\ ret = "AssertionError"
    /\ args.B_type = "int" /\ Len(args.x0) = AmbientDim + 1 /\ args.n >= 1

-----------------------------------------------------------------------------
(* Properties of chains sharing a process, checked under SpecChains *)

\* C12: every draw of a chain is taken from a source whose state is the work
\* of that chain alone: the state of the source at the draw is the number of
\* values the chain itself took from it before, whatever the other chains
\* have drawn in between.
C12_DrawsIndependentOfOtherChains ==
    pc = "chains" =>
        \A c \in Chains :
            \A j \in 1 .. Len(process.chains[c].drawn) :
                process.chains[c].drawn[j].state = process.chains[c].drawn[j].mine

-----------------------------------------------------------------------------
(* Properties of the solver's count, checked under SpecNewton *)

\* the Jacobian evaluations the call completed: an evaluation that raised
\* returned no Jacobian and is left out
CompletedEvaluations(r) == IF r.why = "Q_raised" THEN r.nQ - 1 ELSE r.nQ

\* C13: on every return path the count the solver returns is the number of
\* Jacobian evaluations it made, the one of an iteration that found the
\* Gram matrix singular included.
C13_CountIsEvaluations ==
    pc = "newton_done" => ret.i = CompletedEvaluations(ret)

\* C14: the solver returns with zero iterations and no Jacobian evaluation
\* in exactly two cases: the first constraint evaluation, at z, raised, and
\* then the flag is failure; or the constraint norm at z is below tol, and
\* then the flag is success and a = 0, so that z - Q@a is z itself.
C14_ZeroIterationExits ==
    pc = "newton_done" =>
        LET q_z == manifold_q(args.manifold, args.z)
            raised == ~q_z.ok
            within == q_z.ok /\ Abs(q_z.val) < args.tol
        IN  /\ (ret.i = 0 /\ ret.nQ = 0) <=> (raised \/ within)
            /\ raised => ret.flag = 0 /\ ret.i = 0 /\ ret.nQ = 0
            /\ within => /\ ret.flag = 1 /\ ret.a = 0
                          /\ Sub(args.z, Scale(ret.a, args.Q)) = args.z

\* C14 witness: a point off the manifold by less than tol was returned as it
\* is, with a = 0 and no iteration
C14_Witness ==
    /\ pc = "newton_done" /\ ret.flag = 1 /\ ret.i = 0 /\ ret.nQ = 0 /\ ret.a = 0
    /\ manifold_q(args.manifold, args.z).val # 0
    /\ args.maxiter >= 1

-----------------------------------------------------------------------------
(* Properties of THUG's squeeze, checked under SpecThug *)

\* C15: with alpha = 0, in every pass the velocity that enters the bounces
\* is the drawn velocity v0s, and in every pass that reaches the acceptance
\* test the velocity used there is the velocity after the last bounce.
C15_ZeroAlphaIsNoOp ==
    pc \in {"thug_loop", "thug_raised", "thug_returned"} /\ args.alpha.num = 0 =>
        \A k \in 1 .. Len(hist) :
            LET h == hist[k] IN
            /\ h.r.where # "squeeze" => h.r.vin = h.v0s /\ ~h.r.vin_nan
            /\ h.r.exc = "none" => h.r.v = h.r.vout /\ (h.r.nan <=> h.r.vout_nan)

-----------------------------------------------------------------------------
(* Properties of the C-RWM acceptance step, checked under Spec *)

\* twice the right side of the Metropolis-Hastings test of an iteration:
\* logeta(candidate) - logeta(x) - |v_end|^2/2 + |v_start|^2/2, with both
\* log-densities evaluated afresh
TwiceLogRatio(h) ==
    manifold_logeta(args.manifold, h.lf.x).val - manifold_logeta(args.manifold, h.x).val
        - Dot(h.lf.v, h.lf.v) + Dot(h.v, h.v)

\* C16: an iteration accepts exactly when its trajectory succeeded and its
\* own log-uniform, entry i of the n drawn, is at most logeta(candidate) -
\* logeta(x) - |v_end|^2/2 + |v_start|^2/2; an iteration whose trajectory
\* failed rejects whatever its log-uniform.  Accepting means the candidate
\* becomes the state and the row written.
C16_AcceptanceTest ==
    pc \in {"crwm_loop", "crwm_returned"} =>
        /\ Len(crwm.logu) = args.n
        /\ \A k \in 1 .. Len(hist) :
             LET h == hist[k] IN
             /\ h.accept <=> (h.lf.successful /\ crwm.logu[k] <= TwiceLogRatio(h))
             /\ ~h.lf.successful => ~h.accept
             /\ StateAfter(k) = IF h.accept THEN h.lf.x ELSE h.x
             /\ crwm.samples[h.srow] = StateAfter(k)

\* C16 witness: of two iterations with successful trajectories that moved,
\* one was accepted and the other rejected by its log-uniform
C16_Witness ==
    /\ pc = "crwm_returned" /\ Len(hist) = 2
    /\ \E k, l \in 1 .. 2 :
         /\ hist[k].lf.successful /\ hist[k].accept /\ hist[k].lf.x # hist[k].x
         /\ hist[l].lf.successful /\ ~hist[l].accept /\ hist[l].lf.x # hist[l].x

-----------------------------------------------------------------------------
(* Properties of one RATTLE step, checked under SpecLeapfrog *)

\* what C17 says of a step r called with position x, velocity v and
\* Jacobian Jx, y being the point the projection gave
StepContract(r, x, v, Jx) ==
    /\ r.Jraised <=> ~compute_J(args.manifold, r.y).ok
    /\ r.Jraised => r.x = x /\ r.v = v /\ r.J = Jx /\ r.flag = 0
    /\ ~r.Jraised => /\ r.flag = r.proj.flag
                      /\ r.x = r.y
                      /\ r.J = compute_J(args.manifold, r.x).val

\* C17: a RATTLE step whose Jacobian evaluation at the projected point y
\* raised returns the position, velocity and Jacobian it was given and the
\* failure flag; any other step returns the flag of its Newton projection
\* and the Jacobian evaluated at the position it returns.  Checked on the
\* forward and the backward step of every step of a trajectory.
C17_StepOnJacobianFailure ==
    pc = "leapfrog_done" =>
        \A j \in 1 .. Len(ret.steps) :
            LET st == ret.steps[j] IN
            /\ StepContract(st.fw, st.x, st.v, st.J)
            /\ StepContract(st.bw, st.fw.x, Neg(st.fw.v), st.fw.J)

\* C17 witness: in the second step of a trajectory the Jacobian at the
\* projected point raised, away from the step's starting position
C17_Witness ==
    /\ pc = "leapfrog_done" /\ Len(ret.steps) = 2
    /\ ret.steps[2].fw.Jraised
    /\ ret.steps[2].fw.y # ret.steps[2].x
    /\ ret.steps[2].x # args.x0

-----------------------------------------------------------------------------
(* Properties of the state and the counters of C-RWM, checked under Spec *)

\* the position and its two caches at the start of iteration k
CacheBefore(k) ==
    [x |-> hist[k].x, logeta_x |-> hist[k].logeta_x, Jx |-> hist[k].Jx]

\* the position and its two caches once iteration k has run
CacheAfter(k) ==
    IF k < Len(hist) THEN CacheBefore(k + 1)
    ELSE [x |-> crwm.x, logeta_x |-> crwm.logeta_x, Jx |-> crwm.Jx]

\* the caches c are the values of logeta and J at the position of c
CacheFresh(c) ==
    /\ c.logeta_x = manifold_logeta(args.manifold, c.x)
    /\ c.Jx = compute_J(args.manifold, c.x).val

\* C18: the position, the cached log-density and the cached Jacobian change
\* only together: an accepted iteration replaces all three by the
\* candidate's, a rejected one keeps all three; so at the start of every
\* iteration, and at the end of the run, the two caches are the values at
\* the current position.
C18_CachesMoveTogether ==
    pc \in {"crwm_loop", "crwm_returned"} =>
        /\ \A k \in 1 .. Len(hist) :
             LET h == hist[k] IN
             /\ h.accept =>
                  CacheAfter(k) = [x |-> h.lf.x,
                                   logeta_x |-> manifold_logeta(args.manifold, h.lf.x),
                                   Jx |-> h.lf.J]
             /\ ~h.accept => CacheAfter(k) = CacheBefore(k)
             /\ CacheFresh(CacheBefore(k))
             /\ CacheFresh(CacheAfter(k))
        /\ CacheFresh([x |-> crwm.x, logeta_x |-> crwm.logeta_x, Jx |-> crwm.Jx])

\* C18 witness: a run whose first iteration was accepted and changed the
\* position and both caches, and whose second iteration, a successful
\* trajectory to another point, was rejected
C18_Witness ==
    /\ pc = "crwm_returned" /\ Len(hist) = 2
    /\ hist[1].accept
    /\ CacheAfter(1).x # CacheBefore(1).x
    /\ CacheAfter(1).Jx # CacheBefore(1).Jx
    /\ CacheAfter(1).logeta_x # CacheBefore(1).logeta_x
    /\ ~hist[2].accept /\ hist[2].lf.successful /\ hist[2].lf.x # hist[2].x

\* the counters once iteration k has run
CountersAfter(k) == IF k < Len(hist) THEN hist[k + 1].N_EVALS ELSE crwm.N_EVALS

\* C19: the density counter returned is 1 plus the number of iterations with
\* a successful trajectory: an iteration adds one when its trajectory
\* succeeded and nothing when it failed; the acceptance decision is the test
\* of line 94 on the trajectory's outcome, whatever the counter holds.
C19_DensityCounter ==
    pc = "crwm_returned" =>
        /\ ret.N_EVALS.density
             = 1 + Cardinality({ k \in 1 .. Len(hist) : hist[k].lf.successful })
        /\ hist[1].N_EVALS.density = 1
        /\ \A k \in 1 .. Len(hist) :
             LET h == hist[k] IN
             /\ h.lf.successful => CountersAfter(k).density = h.N_EVALS.density + 1
             /\ ~h.lf.successful => CountersAfter(k).density = h.N_EVALS.density
             /\ h.accept <=> (h.lf.successful /\ crwm.logu[k] <= TwiceLogRatio(h))
             /\ \A l \in 1 .. Len(hist) :
                  \* same trajectory outcome, same log-uniform, same decision,
                  \* though the counters differ
                  (hist[l].lf = h.lf /\ hist[l].v = h.v /\ hist[l].logeta_x = h.logeta_x
                      /\ crwm.logu[l] = crwm.logu[k]) => hist[l].accept = h.accept

\* C19 witness: a run with one failed and one successful trajectory
C19_Witness ==
    /\ pc = "crwm_returned" /\ Len(hist) = 2
    /\ ~hist[1].lf.successful /\ hist[2].lf.successful
    /\ ret.N_EVALS.density = 2

RECURSIVE SumStepCounts(_, _)
\* the counts of the first j steps of a trajectory, each the solver's count
\* plus one for the forward and for the backward step
SumStepCounts(steps, j) ==
    IF j = 0 THEN 0
    ELSE SumStepCounts(steps, j - 1)
         + (steps[j].fw.proj.i + 1) + (steps[j].bw.proj.i + 1)

RECURSIVE SumTrajectoryCounts(_)
\* the counts of the trajectories of the first k iterations
SumTrajectoryCounts(k) ==
    IF k = 0 THEN 0 ELSE SumTrajectoryCounts(k - 1) + hist[k].lf.n

\* C20: the Jacobian counter returned is 1 plus the counts of the
\* trajectories of all n iterations, successful or not; the count of a
\* trajectory is the sum, over the steps it ran, of the forward and the
\* backward step's count, each the solver's count plus one; a failed
\* trajectory ran the steps up to and including the failing one, a
\* successful one ran all B.
C20_JacobianCounter ==
    pc = "crwm_returned" =>
        /\ Len(hist) = args.n
        /\ ret.N_EVALS.jacobian = 1 + SumTrajectoryCounts(args.n)
        /\ \A k \in 1 .. Len(hist) :
             LET lf == hist[k].lf IN
             /\ CountersAfter(k).jacobian = hist[k].N_EVALS.jacobian + lf.n
             /\ lf.n = SumStepCounts(lf.steps, Len(lf.steps))
             /\ \A j \in 1 .. Len(lf.steps) :
                  /\ lf.steps[j].fw.n = lf.steps[j].fw.proj.i + 1
                  /\ lf.steps[j].bw.n = lf.steps[j].bw.proj.i + 1
                  /\ lf.steps[j].failed <=> (~lf.successful /\ j = Len(lf.steps))
             /\ lf.successful => Len(lf.steps) = args.B
             /\ Len(lf.steps) \in 1 .. args.B

\* C20 witness: a run of two iterations with B = 2, one whose trajectory
\* failed at its first step and one whose trajectory succeeded, in which a
\* solver iterated
C20_Witness ==
    /\ pc = "crwm_returned" /\ Len(hist) = 2 /\ args.B = 2
    /\ ~hist[1].lf.successful /\ Len(hist[1].lf.steps) = 1
    /\ hist[2].lf.successful
    /\ hist[2].lf.n > 4
    /\ ret.N_EVALS.jacobian = 1 + hist[1].lf.n + hist[2].lf.n

-----------------------------------------------------------------------------
(* Properties of one THUG pass, checked under SpecThug *)

\* the position and the velocity with which bounce j of pass r, started at
\* x0, begins
BounceStart(x0, r, j) ==
    IF j = 1 THEN [x |-> x0, v |-> r.vin]
    ELSE [x |-> HalfStep(r.trace[j - 1].x, args.T \div args.B, r.trace[j - 1].v),
          v |-> r.trace[j - 1].v]

\* bounce j of pass r got past its reflection
BounceCompleted(r, j) == j < Len(r.trace) \/ r.njac = Len(r.trace) + 2

\* no number of pass r is a nan
PassFinite(r) == ~r.nan /\ ~r.vin_nan /\ ~r.vout_nan

\* C21: a pass that reaches its accept test has run exactly B bounces and
\* asked for the Jacobian exactly B + 2 times: at its starting state (the
\* squeeze), at the half-step position of each bounce, and at the end
\* position (the unsqueeze).  A bounce is the half-step x + (delta/2) v, the
\* reflection v - 2 project(v, J) with J taken at that half-step position,
\* and the half-step with the reflected velocity.  The pass is computed
\* from these Jacobians alone; a pass an exception cut short ran a prefix of
\* this order.
C21_BounceOrder ==
    pc \in {"thug_loop", "thug_raised", "thug_returned"} =>
        \A k \in 1 .. Len(hist) :
            LET h == hist[k]
                r == hist[k].r
                delta == args.T \div args.B
            IN  /\ Len(r.trace) <= args.B
                /\ r.njac \in 1 .. args.B + 2
                /\ r.njac \in {Len(r.trace) + 1, Len(r.trace) + 2}
                /\ r.exc = "none" => Len(r.trace) = args.B /\ r.njac = args.B + 2
                /\ Len(JacobianPoints(h.x0, r)) = r.njac
                /\ JacobianPoints(h.x0, r)[1] = h.x0
                /\ PassFinite(r) =>
                     /\ r.vin = Sub(h.v0s, TimesAlpha(args.alpha,
                                  project(args.method, h.v0s, jac(args.manifold, h.x0).val)))
                     /\ \A j \in 1 .. Len(r.trace) :
                          LET s == BounceStart(h.x0, r, j) IN
                          /\ r.trace[j].x = HalfStep(s.x, delta, s.v)
                          /\ JacobianPoints(h.x0, r)[j + 1] = r.trace[j].x
                          /\ BounceCompleted(r, j) =>
                               r.trace[j].v
                                 = Sub(s.v, Scale(2, project(args.method, s.v,
                                              jac(args.manifold, r.trace[j].x).val)))
                     /\ r.njac = args.B + 2 =>
                          /\ r.x = HalfStep(r.trace[args.B].x, delta, r.trace[args.B].v)
                          /\ r.vout = r.trace[args.B].v
                          /\ JacobianPoints(h.x0, r)[args.B + 2] = r.x
                     /\ r.exc = "none" =>
                          r.v = Add(r.vout, TimesAlphaRatio(args.alpha,
                                       project(args.method, r.vout,
                                               jac(args.manifold, r.x).val)))

\* C21 witness: a pass of two bounces that ran to its accept test after four
\* Jacobian evaluations, moved at both half-steps of each bounce, was turned
\* by a reflection and had its velocity changed by the unsqueeze
C21_Witness ==
    /\ pc = "thug_returned" /\ args.B = 2
    /\ \E k \in 1 .. Len(hist) :
         LET r == hist[k].r IN
         /\ r.exc = "none" /\ PassFinite(r) /\ r.njac = 4 /\ Len(r.trace) = 2
         /\ r.trace[1].x # hist[k].x0
         /\ r.trace[2].x # r.trace[1].x
         /\ r.trace[2].v # r.trace[1].v
         /\ r.x # r.trace[2].x
         /\ r.v # r.vout

-----------------------------------------------------------------------------
(* Properties of the rows and flags C-RWM returns, checked under Spec *)

\* the iterations that wrote slot a of ACCEPTED
WritersOf(a) == { k \in 1 .. Len(hist) : hist[k].arow = a }

\* C22: for n >= 1 every slot of the returned acceptance record was written
\* by exactly one iteration and holds that iteration's decision, so the
\* number of ones in the record is the number of accepted iterations.
C22_AcceptedSlotsWrittenOnce ==
    pc = "crwm_returned" /\ args.n >= 1 =>
        /\ Len(ret.ACCEPTED) = args.n
        /\ \A a \in 1 .. args.n :
             /\ Cardinality(WritersOf(a)) = 1
             /\ ret.ACCEPTED[a] \in {0, 1}
             /\ \A k \in WritersOf(a) : (ret.ACCEPTED[a] = 1) <=> hist[k].accept
        /\ Cardinality({ a \in 1 .. args.n : ret.ACCEPTED[a] = 1 })
             = Cardinality({ k \in 1 .. Len(hist) : hist[k].accept })

\* C22 witness: a run of the longest length of which only the first
\* iteration accepted, its flag in the last slot
C22_Witness ==
    /\ pc = "crwm_returned" /\ args.n = MaxN
    /\ hist[1].accept /\ \A k \in 2 .. MaxN : ~hist[k].accept
    /\ ret.ACCEPTED[MaxN] = 1
    /\ \A a \in 1 .. MaxN - 1 : ret.ACCEPTED[a] = 0

\* C24 as claimed: the first row of the returned chain is the initial point
\* stored before the loop, and no iteration writes that row
C24_FirstRowIsInitialPoint ==
    pc = "crwm_returned" =>
        /\ ret.samples[1] = args.x0
        /\ \A k \in 1 .. Len(hist) : hist[k].srow # 1

-----------------------------------------------------------------------------
(* Properties of the process-wide state THUG touches, checked under SpecThug *)

\* C23 as claimed: the process-wide warning filters are, after every pass
\* and when THUG returns or raises, the ones in force before sampling
\* started
C23_WarningFiltersRestored ==
    pc \in {"thug_loop", "thug_raised", "thug_returned"} =>
        /\ thug.filters = "default"
        /\ \A k \in 1 .. Len(hist) : hist[k].r.filters = "default"

=============================================================================
